---- MODULE Spec2Model ----
(***************************************************************************)
(* Model of code-examples/python/simple_blockchain.py: Block, Transaction *)
(* and Blockchain.  One Blockchain instance, one caller thread.           *)
(*                                                                         *)
(* Strings that hold a digest are modelled as [hex, pre]: hex is the       *)
(* sequence of digits of the hexdigest, pre is the serialization that was  *)
(* hashed.  Two digests are equal exactly when the hashed serializations   *)
(* are equal, i.e. SHA-256 is taken to be collision free; the digits are a *)
(* deterministic mix of the hashed values.                                 *)
(***************************************************************************)
EXTENDS Integers, Sequences, FiniteSets, TLC

\* ---------------------------------------------------------------- bounds
MaxBlocks == 3          \* longest chain explored (genesis included)
MaxPending == 3         \* longest pending pool explored (the reward included)
MaxTime == 1            \* largest value of the clock read by time.time()
MaxDifficulty == 3      \* difficulties 0..MaxDifficulty are constructed
DigitBase == 4          \* size of the digit alphabet of a digest (16 in hexdigest)
HashLen == 2            \* digits in a digest (64 in a SHA-256 hexdigest)
MaxInterrupts == 1      \* interrupted calls explored in one run

\* ------------------------------------------------------- program values
None == "None"                      \* Python's None (never a caller's address)
Addresses == {"Alice", "Bob"}       \* caller-chosen identifiers
Amounts == {0, 50, 100}             \* caller-chosen amounts
RewardAddresses == {"Alice"}        \* addresses that mine
MiningReward == 100

HashSpace == DigitBase ^ HashLen    \* number of distinct digit strings
MaxNonce == HashSpace               \* the nonce search is explored up to here
NonceStride == 2 * DigitBase + 1    \* coprime to HashSpace: every digit string is met

\* chain, difficulty, pending_transactions: the attributes of the Blockchain
\* now: the value time.time() returns
\* pc: "idle" between calls, "mining" inside the loop of mine_block
\* new_block: the local new_block of mine_pending_transactions
\* entry_pending: the pool as it was when the running mine_pending_transactions
\*   was called
\* ret: the last call, its reward address and what it returned
\* interrupts: the number of interrupted calls
VARIABLES chain, difficulty, pending_transactions, now, pc, new_block,
          entry_pending, ret, interrupts

vars == <<chain, difficulty, pending_transactions, now, pc, new_block,
          entry_pending, ret, interrupts>>

\* ------------------------------------------------------------- strings
\* "0" * n
Zeros(n) == [i \in 1..n |-> 0]

\* s[:n] for n >= 0
Slice(s, n) == SubSeq(s, 1, IF n < Len(s) THEN n ELSE Len(s))

\* s.startswith(p)
StartsWith(s, p) == Len(p) <= Len(s) /\ SubSeq(s, 1, Len(p)) = p

\* the literal "0" used as previous_hash of the genesis block
ZeroString == [hex |-> <<0>>, pre |-> <<>>]

\* a key that a record does not have (the genesis record has no "hash")
Absent == [hex |-> <<>>, pre |-> <<>>]

\* ------------------------------------------------------------- hashing
\* digits of v, most significant first, n digits
RECURSIVE ToDigits(_, _)
ToDigits(v, n) ==
    IF n = 0 THEN <<>>
    ELSE Append(ToDigits(v \div DigitBase, n - 1), v % DigitBase)

RECURSIVE DigitsValue(_)
DigitsValue(d) ==
    IF d = <<>> THEN 0
    ELSE DigitsValue(SubSeq(d, 1, Len(d) - 1)) * DigitBase + d[Len(d)]

AddrCode(a) ==
    CASE a = None -> 0
      [] a = "genesis" -> 1
      [] a = "Alice" -> 2
      [] a = "Bob" -> 3
      [] OTHER -> 5

\* hashlib.sha256(text.encode()).hexdigest(): text is the serialization,
\* mix the number its characters are folded to
Sha256(text, mix) == [hex |-> ToDigits(mix % HashSpace, HashLen), pre |-> text]

\* Transaction.calculate_hash: json.dumps with sort_keys of the four attributes
TxCalculateHash(tx) ==
    Sha256(<<tx.amount, tx.recipient, tx.sender, tx.timestamp>>,
           3 * tx.amount + 5 * AddrCode(tx.recipient) + 7 * AddrCode(tx.sender)
             + 11 * tx.timestamp + 1)

\* Transaction.to_dict
TxToDict(tx) ==
    [sender |-> tx.sender, recipient |-> tx.recipient, amount |-> tx.amount,
     timestamp |-> tx.timestamp, hash |-> TxCalculateHash(tx)]

RecordMix(r) ==
    3 * r.amount + 5 * AddrCode(r.recipient) + 7 * AddrCode(r.sender)
      + 11 * r.timestamp + 13 * DigitsValue(r.hash.hex)

RECURSIVE RecordsMix(_)
RecordsMix(rs) ==
    IF rs = <<>> THEN 0
    ELSE 2 * RecordsMix(SubSeq(rs, 1, Len(rs) - 1)) + RecordMix(rs[Len(rs)])

\* leaves the transactions out of the hashed attributes
CalculateHash_notx(b) ==
    Sha256(<<b.index, b.nonce, b.previous_hash, b.timestamp>>,
           HashSpace * HashSpace
             + 7 * b.index + NonceStride * b.nonce
             + 3 * DigitsValue(b.previous_hash.hex) + 11 * b.timestamp)

\* Block.calculate_hash: json.dumps with sort_keys of every attribute but hash
CalculateHash(b) ==
    Sha256(<<b.index, b.nonce, b.previous_hash, b.timestamp, b.transactions>>,
           HashSpace * HashSpace
             + 7 * b.index + NonceStride * b.nonce
             + 3 * DigitsValue(b.previous_hash.hex) + 11 * b.timestamp
             + RecordsMix(b.transactions))

\* Block.__init__
NewBlock(index, transactions, previous_hash, t) ==
    LET b == [index |-> index, timestamp |-> t, transactions |-> transactions,
              previous_hash |-> previous_hash, nonce |-> 0, hash |-> Absent]
    IN  [b EXCEPT !.hash = CalculateHash(b)]
\* tests one digit too few
MineLoopCond_short(b, d) == Slice(b.hash.hex, d - 1) /= Zeros(d - 1)

\* tests one digit too many
MineLoopCond_long(b, d) == Slice(b.hash.hex, d + 1) /= Zeros(d + 1)

\* the loop condition of Block.mine_block
MineLoopCond(b, d) == Slice(b.hash.hex, d) /= Zeros(d)
\* hashes before the nonce is incremented
MineIteration_stale(b) == [b EXCEPT !.nonce = b.nonce + 1, !.hash = CalculateHash(b)]

\* one iteration of the loop of Block.mine_block
MineIteration(b) ==
    LET c == [b EXCEPT !.nonce = b.nonce + 1]
    IN  [c EXCEPT !.hash = CalculateHash(c)]

\* --------------------------------------------------------- transactions
NewTransaction(sender, recipient, amount, t) ==
    [sender |-> sender, recipient |-> recipient, amount |-> amount, timestamp |-> t]

\* accepts every transaction
IsValid_any(tx) == TRUE

\* Transaction.is_valid
IsValid(tx) ==
    IF tx.sender = tx.recipient THEN FALSE
    ELSE IF tx.amount <= 0 THEN FALSE
    ELSE TRUE

\* ----------------------------------------------------------- Blockchain
\* Blockchain.create_genesis_block
GenesisBlock(t) ==
    NewBlock(0,
             <<[sender |-> None, recipient |-> "genesis", amount |-> 0,
                timestamp |-> t, hash |-> Absent]>>,
             ZeroString, t)
\* returns the first block instead of the last
GetLatestBlock_first(c) == c[1]

\* Blockchain.get_latest_block
GetLatestBlock(c) == c[Len(c)]

\* never debits the sender
RECURSIVE RecordsBalance_nodebit(_, _)
RecordsBalance_nodebit(rs, address) ==
    IF rs = <<>> THEN 0
    ELSE LET r == rs[Len(rs)]
         IN  RecordsBalance_nodebit(SubSeq(rs, 1, Len(rs) - 1), address)
               + (IF r.recipient = address THEN r.amount ELSE 0)

RECURSIVE RecordsBalance(_, _)
RecordsBalance(rs, address) ==
    IF rs = <<>> THEN 0
    ELSE LET r == rs[Len(rs)]
         IN  RecordsBalance(SubSeq(rs, 1, Len(rs) - 1), address)
               - (IF r.sender = address THEN r.amount ELSE 0)
               + (IF r.recipient = address THEN r.amount ELSE 0)

\* Blockchain.get_balance
RECURSIVE GetBalance(_, _)
GetBalance(c, address) ==
    IF c = <<>> THEN 0
    ELSE GetBalance(SubSeq(c, 1, Len(c) - 1), address)
           + RecordsBalance(c[Len(c)].transactions, address)

\* leaves out the proof-of-work check
IsChainValid_nopow(c, d) ==
    \A i \in 2..Len(c) :
        /\ c[i].hash = CalculateHash(c[i])
        /\ c[i].previous_hash = c[i - 1].hash

\* leaves out the link check
IsChainValid_nolink(c, d) ==
    \A i \in 2..Len(c) :
        /\ c[i].hash = CalculateHash(c[i])
        /\ StartsWith(c[i].hash.hex, Zeros(d))

\* Blockchain.is_chain_valid
IsChainValid(c, d) ==
    \A i \in 2..Len(c) :
        /\ c[i].hash = CalculateHash(c[i])
        /\ c[i].previous_hash = c[i - 1].hash
        /\ StartsWith(c[i].hash.hex, Zeros(d))

\* Blockchain.get_chain_info
GetChainInfo(c, d, p) ==
    [blocks |-> Len(c), difficulty |-> d, pending_transactions |-> Len(p),
     is_valid |-> IsChainValid(c, d)]

\* ------------------------------------------------------------- results
NoBlock == [index |-> 0, timestamp |-> 0, transactions |-> <<>>,
            previous_hash |-> Absent, nonce |-> 0, hash |-> Absent]

Ret(op, addr, ok, num) == [op |-> op, addr |-> addr, ok |-> ok, num |-> num]

\* Blockchain.__init__
Init ==
    /\ difficulty \in 0..MaxDifficulty
    /\ now = 0
    /\ chain = <<GenesisBlock(0)>>
    /\ pending_transactions = <<>>
    /\ pc = "idle"
    /\ new_block = NoBlock
    /\ entry_pending = <<>>
    /\ ret = Ret("init", None, TRUE, 0)
    /\ interrupts = 0

\* the value time.time() returns once a block has been mined at time t: the
\* clock advances while the proof of work runs
ClockAfterMining(t) == IF t < MaxTime THEN t + 1 ELSE t

\* compares the balance with <=
AddDecision_strict(c, tx) ==
    IF ~IsValid(tx) THEN FALSE
    ELSE IF GetBalance(c, tx.sender) <= tx.amount THEN FALSE
    ELSE TRUE

\* refuses a sender that already has a submission in the pool
AddDecision_once(c, tx) ==
    IF ~IsValid(tx) THEN FALSE
    ELSE IF GetBalance(c, tx.sender) < tx.amount THEN FALSE
    ELSE \A j \in 1..Len(pending_transactions) :
            pending_transactions[j].sender /= tx.sender

\* the decision of Blockchain.add_transaction: TRUE when tx is enqueued
AddDecision(c, tx) ==
    IF ~IsValid(tx) THEN FALSE
    ELSE IF GetBalance(c, tx.sender) < tx.amount THEN FALSE
    ELSE TRUE
\* enqueues before deciding
PoolAfterAdd_always(pool, tx, accepted) == Append(pool, tx)

\* the pool Blockchain.add_transaction leaves
PoolAfterAdd(pool, tx, accepted) ==
    IF accepted THEN Append(pool, tx) ELSE pool

\* Blockchain.add_transaction(Transaction(sender, recipient, amount))
AddTransaction(sender, recipient, amount) ==
    LET tx == NewTransaction(sender, recipient, amount, now)
        accepted == AddDecision(chain, tx)
    IN  /\ pc = "idle"
        /\ accepted => /\ Len(chain) < MaxBlocks
                       /\ Len(pending_transactions) + 1 < MaxPending
        /\ pending_transactions' = PoolAfterAdd(pending_transactions, tx, accepted)
        /\ ret' = Ret("add_transaction", None, accepted, 0)
        /\ UNCHANGED <<chain, difficulty, now, pc, new_block, entry_pending,
                       interrupts>>

\* the reward transaction of Blockchain.mine_pending_transactions
RewardTransaction(mining_reward_address, t) ==
    NewTransaction(None, mining_reward_address, MiningReward, t)
\* snapshots the pool in reverse order
BuildBlock_reversed(c, pool, t) ==
    NewBlock(Len(c), [i \in 1..Len(pool) |-> TxToDict(pool[Len(pool) + 1 - i])],
             GetLatestBlock(c).hash, t)

\* the block Blockchain.mine_pending_transactions builds from the pool
BuildBlock(c, pool, t) ==
    NewBlock(Len(c), [i \in 1..Len(pool) |-> TxToDict(pool[i])],
             GetLatestBlock(c).hash, t)

\* Blockchain.mine_pending_transactions, up to the first test of the loop of
\* mine_block: the reward is appended to the pool and the block is built
MineBegin(mining_reward_address) ==
    LET pool == Append(pending_transactions,
                       RewardTransaction(mining_reward_address, now))
    IN  /\ pc = "idle"
        /\ Len(chain) < MaxBlocks
        /\ Len(pending_transactions) < MaxPending
        /\ entry_pending' = pending_transactions
        /\ pending_transactions' = pool
        /\ new_block' = BuildBlock(chain, pool, now)
        /\ pc' = "mining"
        /\ ret' = Ret("mining", mining_reward_address, TRUE, 0)
        /\ UNCHANGED <<chain, difficulty, now, interrupts>>

\* one iteration of the proof-of-work loop
MineStep ==
    /\ pc = "mining"
    /\ MineLoopCond(new_block, difficulty)
    /\ new_block.nonce < MaxNonce
    /\ new_block' = MineIteration(new_block)
    /\ UNCHANGED <<chain, difficulty, pending_transactions, now, pc,
                   entry_pending, ret, interrupts>>
\* forgets to clear the pool
MineFinish_keep ==
    /\ pc = "mining"
    /\ ~MineLoopCond(new_block, difficulty)
    /\ chain' = Append(chain, new_block)
    /\ pc' = "idle"
    /\ new_block' = NoBlock
    /\ entry_pending' = <<>>
    /\ ret' = Ret("mine_pending_transactions", None, TRUE, 0)
    /\ now' = ClockAfterMining(now)
    /\ UNCHANGED <<difficulty, interrupts, pending_transactions>>

\* the loop ends: the block is appended and the pool is cleared
MineFinish ==
    /\ pc = "mining"
    /\ ~MineLoopCond(new_block, difficulty)
    /\ chain' = Append(chain, new_block)
    /\ pending_transactions' = <<>>
    /\ pc' = "idle"
    /\ new_block' = NoBlock
    /\ entry_pending' = <<>>
    /\ ret' = Ret("mine_pending_transactions", None, TRUE, 0)
    /\ now' = ClockAfterMining(now)
    /\ UNCHANGED <<difficulty, interrupts>>

\* the call is interrupted while mine_block runs (KeyboardInterrupt): the
\* exception leaves mine_pending_transactions, the local new_block is lost
Interrupt ==
    /\ pc = "mining"
    /\ interrupts < MaxInterrupts
    /\ interrupts' = interrupts + 1
    /\ pc' = "idle"
    /\ new_block' = NoBlock
    /\ entry_pending' = <<>>
    /\ ret' = Ret("interrupted", None, FALSE, 0)
    /\ UNCHANGED <<chain, difficulty, pending_transactions, now>>

\* Blockchain.get_balance(address)
GetBalanceCall(address) ==
    /\ pc = "idle"
    /\ ret' = Ret("get_balance", None, TRUE, GetBalance(chain, address))
    /\ UNCHANGED <<chain, difficulty, pending_transactions, now, pc, new_block,
                   entry_pending, interrupts>>

\* stores the content hash of every block before answering
IsChainValidCall_repair ==
    /\ pc = "idle"
    /\ chain' = [i \in 1..Len(chain) |->
                   [chain[i] EXCEPT !.hash = CalculateHash(chain[i])]]
    /\ ret' = Ret("is_chain_valid", None, IsChainValid(chain', difficulty), 0)
    /\ UNCHANGED <<difficulty, pending_transactions, now, pc, new_block,
                   entry_pending, interrupts>>

\* Blockchain.is_chain_valid()
IsChainValidCall ==
    /\ pc = "idle"
    /\ ret' = Ret("is_chain_valid", None, IsChainValid(chain, difficulty), 0)
    /\ UNCHANGED <<chain, difficulty, pending_transactions, now, pc, new_block,
                   entry_pending, interrupts>>

\* Blockchain.get_chain_info()
GetChainInfoCall ==
    LET info == GetChainInfo(chain, difficulty, pending_transactions)
    IN  /\ pc = "idle"
        /\ ret' = Ret("get_chain_info", None, info.is_valid, info.blocks)
        /\ UNCHANGED <<chain, difficulty, pending_transactions, now, pc,
                       new_block, entry_pending, interrupts>>

Next ==
    \/ \E s \in Addresses \cup {None}, r \in Addresses, a \in Amounts :
          AddTransaction(s, r, a)
    \/ \E m \in RewardAddresses : MineBegin(m)
    \/ MineStep
    \/ MineFinish
    \/ Interrupt
    \/ \E a \in Addresses \cup {None, "genesis"} : GetBalanceCall(a)
    \/ IsChainValidCall
    \/ GetChainInfoCall

Spec == Init /\ [][Next]_vars

\* ---------------------------------------------------------------- tampering
\* the attributes of a record of a block's transaction list
Fields == {"sender", "recipient", "amount", "timestamp", "hash"}

\* record r with the value of attribute f replaced by a different one, as in
\* blockchain.chain[1].transactions[0]['amount'] = 999999
Altered(r, f) ==
    CASE f = "sender" ->
           [r EXCEPT !.sender = IF @ = "Mallory" THEN "Alice" ELSE "Mallory"]
      [] f = "recipient" ->
           [r EXCEPT !.recipient = IF @ = "Mallory" THEN "Alice" ELSE "Mallory"]
      [] f = "amount" ->
           [r EXCEPT !.amount = IF @ = 999999 THEN 0 ELSE 999999]
      [] f = "timestamp" ->
           [r EXCEPT !.timestamp = @ + 1]
      [] f = "hash" ->
           [r EXCEPT !.hash = IF @ = ZeroString THEN Absent ELSE ZeroString]

\* no block was altered since its hash was stored
Sealed(c) == \A i \in 1..Len(c) : c[i].hash = CalculateHash(c[i])

\* the caller alters attribute f of record j of block i (1-based positions)
\* of a chain built through the API, between two rounds of mining
Tamper(i, j, f) ==
    /\ pc = "idle"
    /\ pending_transactions = <<>>
    /\ Sealed(chain)
    /\ i \in 1..Len(chain)
    /\ j \in 1..Len(chain[i].transactions)
    /\ chain' = [chain EXCEPT ![i].transactions[j] = Altered(@, f)]
    /\ ret' = Ret("tamper", None, TRUE, i - 1)
    /\ UNCHANGED <<difficulty, pending_transactions, now, pc, new_block,
                   entry_pending, interrupts>>

\* the API is used, then a block is altered, then the chain is queried
NextTamper ==
    \/ Sealed(chain) /\ Next
    \/ \E i \in 1..MaxBlocks, j \in 1..MaxPending, f \in Fields : Tamper(i, j, f)
    \/ ~Sealed(chain) /\ IsChainValidCall
    \/ ~Sealed(chain) /\ GetChainInfoCall

SpecTamper == Init /\ [][NextTamper]_vars

\* ------------------------------------------------------------ properties
LastBlock == chain[Len(chain)]

\* the transaction add_transaction(Transaction(s, r, a)) is called with
TxArg(s, r, a) == [sender |-> s, recipient |-> r, amount |-> a, timestamp |-> now]

\* C1: the chain is never empty, its first block has previous_hash "0" and
\* every later block's previous_hash is the stored hash of the block before it
C1_ChainLinked ==
    /\ Len(chain) >= 1
    /\ chain[1].previous_hash = ZeroString
    /\ \A i \in 2..Len(chain) : chain[i].previous_hash = chain[i - 1].hash

C1_Witness ==
    /\ Len(chain) = 3
    /\ chain[3].previous_hash = chain[2].hash
    /\ chain[2].hash /= chain[1].hash

\* C2: is_chain_valid() is true in every state the API reaches, and a call
\* of it returns true
C2_AlwaysValid ==
    /\ IsChainValid(chain, difficulty)
    /\ ret.op = "is_chain_valid" => ret.ok
    /\ ret.op = "get_chain_info" => ret.ok

C2_Witness ==
    /\ ret.op = "is_chain_valid"
    /\ ret.ok
    /\ Len(chain) = 3
    /\ difficulty = 2
    /\ chain[3].nonce > 0

\* C3 as stated: altering any attribute of any record of any block of the
\* chain, the genesis block included, makes is_chain_valid() false
C3_TamperAnyBlock ==
    ret.op = "tamper" => ~IsChainValid(chain, difficulty)

\* C3 amended: altering any attribute of any record of a block at index >= 1
\* makes is_chain_valid() false
C3_TamperMinedBlock ==
    (ret.op = "tamper" /\ ret.num >= 1) => ~IsChainValid(chain, difficulty)

C3_Witness ==
    /\ ret.op = "tamper"
    /\ ret.num = 1
    /\ Len(chain) = 3
    /\ ~IsChainValid(chain, difficulty)

\* C4: add_transaction accepts every transaction with a null sender, a
\* non-null recipient and a positive amount
C4_NullSenderAccepted ==
    [][\A r \in Addresses, a \in Amounts :
          (a > 0 /\ AddTransaction(None, r, a))
            => /\ ret'.ok
               /\ pending_transactions' = Append(pending_transactions, TxArg(None, r, a))]_vars

\* C5: an interrupted mine_pending_transactions leaves the chain as it was
\* and the pool as it was when the call began
C5_InterruptLeavesPool ==
    [][Interrupt => /\ chain' = chain
                    /\ pending_transactions' = entry_pending]_vars

\* C6: a transaction with a non-null sender is accepted (true is returned and
\* it becomes the last of the pool) exactly when it is valid and the sender's
\* balance over the mined blocks is at least its amount
C6_AcceptIff ==
    [][\A s \in Addresses, r \in Addresses, a \in Amounts :
          AddTransaction(s, r, a)
            => ((/\ ret'.ok
                 /\ pending_transactions' = Append(pending_transactions, TxArg(s, r, a)))
                <=> (s /= r /\ a > 0 /\ GetBalance(chain, s) >= a))]_vars

C6_Witness ==
    /\ ret.op = "add_transaction"
    /\ ret.ok
    /\ Len(pending_transactions) = 2
    /\ pending_transactions[2].sender \in Addresses
    /\ GetBalance(chain, pending_transactions[2].sender) = pending_transactions[2].amount

\* C7: a rejected add_transaction returns false and leaves the pool and the
\* chain as they were
C7_RejectFrame ==
    [][\A s \in Addresses \cup {None}, r \in Addresses, a \in Amounts :
          (AddTransaction(s, r, a) /\ (a <= 0 \/ s = r \/ GetBalance(chain, s) < a))
            => /\ ret'.op = "add_transaction"
               /\ ret'.ok = FALSE
               /\ pending_transactions' = pending_transactions
               /\ chain' = chain]_vars

C7_Witness ==
    /\ ret.op = "add_transaction"
    /\ ~ret.ok
    /\ Len(pending_transactions) = 1
    /\ Len(chain) = 2

\* C8: the appended block holds the records of the pool at the call, in
\* order, then one reward record; its index is the old chain length and its
\* previous_hash the stored hash of the old last block
C8_BlockContents ==
    [][MineFinish =>
         LET b == chain'[Len(chain')]
             n == Len(entry_pending)
         IN  /\ Len(chain') = Len(chain) + 1
             /\ b.index = Len(chain)
             /\ b.previous_hash = chain[Len(chain)].hash
             /\ Len(b.transactions) = n + 1
             /\ \A i \in 1..n :
                   /\ b.transactions[i].sender = entry_pending[i].sender
                   /\ b.transactions[i].recipient = entry_pending[i].recipient
                   /\ b.transactions[i].amount = entry_pending[i].amount
                   /\ b.transactions[i].timestamp = entry_pending[i].timestamp
             /\ b.transactions[n + 1].sender = None
             /\ b.transactions[n + 1].recipient = ret.addr
             /\ b.transactions[n + 1].amount = MiningReward]_vars

C8_Witness ==
    /\ ret.op = "mine_pending_transactions"
    /\ Len(chain) = 3
    /\ Len(LastBlock.transactions) = 3
    /\ LastBlock.transactions[1].amount /= LastBlock.transactions[2].amount
    /\ LastBlock.transactions[1].sender /= None

\* C9: the chain only grows, by one block per completed
\* mine_pending_transactions, which empties the pool; no other step changes it
C9_AppendOnly ==
    [][/\ Len(chain') >= Len(chain)
       /\ SubSeq(chain', 1, Len(chain)) = chain
       /\ MineFinish => /\ Len(chain') = Len(chain) + 1
                        /\ pending_transactions' = <<>>
       /\ ~MineFinish => chain' = chain]_vars

C9_Witness ==
    /\ ret.op = "mine_pending_transactions"
    /\ Len(chain) = 3
    /\ pending_transactions = <<>>

\* C10: when mine_block(d) returns the stored hash is the content hash of the
\* block and starts with d zero digits; with d = 0 no iteration runs, the
\* nonce is 0 and the hash is the one the constructor computed
C10_MinedHash ==
    [][/\ MineFinish =>
            /\ new_block.hash = CalculateHash(new_block)
            /\ Len(new_block.hash.hex) >= difficulty
            /\ \A i \in 1..difficulty : new_block.hash.hex[i] = 0
            /\ difficulty = 0 => new_block.nonce = 0
       /\ MineStep => difficulty /= 0]_vars

C10_Witness ==
    /\ ret.op = "mine_pending_transactions"
    /\ difficulty = 2
    /\ LastBlock.nonce > 1
    /\ LastBlock.hash.hex = <<0, 0>>

\* ------------------------------------------------------- balance accounting
\* the positions <<i, j>> of the records of the chain
Entries == {e \in (1..Len(chain)) \X (1..MaxPending) :
              e[2] <= Len(chain[e[1]].transactions)}

EntryRecord(e) == chain[e[1]].transactions[e[2]]

RECURSIVE SumAmounts(_)
SumAmounts(S) ==
    IF S = {} THEN 0
    ELSE LET e == CHOOSE x \in S : TRUE
         IN  EntryRecord(e).amount + SumAmounts(S \ {e})

Received(address) == SumAmounts({e \in Entries : EntryRecord(e).recipient = address})

Sent(address) == SumAmounts({e \in Entries : EntryRecord(e).sender = address})

\* C11: get_balance(address) is what the records of the blocks credit to the
\* address minus what they debit from it, whatever the pool holds, and a call
\* of get_balance returns such a value
C11_BalanceIsNet ==
    /\ \A a \in Addresses \cup {None, "genesis"} :
          GetBalance(chain, a) = Received(a) - Sent(a)
    /\ ret.op = "get_balance" =>
          \E a \in Addresses \cup {None, "genesis"} : ret.num = Received(a) - Sent(a)

C11_Witness ==
    /\ ret.op = "get_balance"
    /\ ret.num = 50
    /\ Len(chain) = 3
    /\ GetBalance(chain, "Bob") = 50
    /\ GetBalance(chain, "Alice") = 150
    /\ GetBalance(chain, None) = -200

\* ----------------------------------------------------------------- demo()
\* the calls demo() makes, in any order, on Blockchain(difficulty=2)
DemoDifficulty == 2

DemoAddresses == {"Alice", "Bob", "Charlie", "Miner1", "Miner2"}

DemoMiners == {"Miner1", "Miner2"}

\* tx1, tx2, tx3, tx4 as <<sender, recipient, amount>>
DemoTransactions ==
    {<<"Alice", "Bob", 50>>, <<"Bob", "Charlie", 25>>, <<"Charlie", "Alice", 10>>,
     <<"Alice", "Bob", 20>>}

InitDemo == Init /\ difficulty = DemoDifficulty

NextDemo ==
    \/ \E t \in DemoTransactions : AddTransaction(t[1], t[2], t[3])
    \/ \E m \in DemoMiners : MineBegin(m)
    \/ MineStep
    \/ MineFinish
    \/ \E a \in DemoAddresses : GetBalanceCall(a)
    \/ IsChainValidCall
    \/ GetChainInfoCall

SpecDemo == InitDemo /\ [][NextDemo]_vars

\* C12: on a fresh chain of difficulty 2 the submissions Alice->Bob:50,
\* Bob->Charlie:25 and Charlie->Alice:10, made in that order, are all accepted,
\* and after mine_pending_transactions("Miner1") on that pool Bob holds 25,
\* Miner1 holds 100 and the chain is valid
C12_DemoScenario ==
    [][ /\ ( /\ Len(chain) = 1
             /\ pending_transactions = <<>>
             /\ AddTransaction("Alice", "Bob", 50) )
          => ret'.ok /\ pending_transactions' = <<TxArg("Alice", "Bob", 50)>>
        /\ ( /\ Len(chain) = 1
             /\ pending_transactions = <<TxArg("Alice", "Bob", 50)>>
             /\ AddTransaction("Bob", "Charlie", 25) )
          => ret'.ok
        /\ ( /\ Len(chain) = 1
             /\ pending_transactions = <<TxArg("Alice", "Bob", 50),
                                         TxArg("Bob", "Charlie", 25)>>
             /\ AddTransaction("Charlie", "Alice", 10) )
          => ret'.ok
        /\ ( /\ Len(chain) = 1
             /\ ret.addr = "Miner1"
             /\ entry_pending = <<TxArg("Alice", "Bob", 50),
                                  TxArg("Bob", "Charlie", 25),
                                  TxArg("Charlie", "Alice", 10)>>
             /\ MineFinish )
          => /\ GetBalance(chain', "Bob") = 25
             /\ GetBalance(chain', "Miner1") = 100
             /\ IsChainValid(chain', difficulty)
      ]_vars

\* ------------------------------------------------- any caller, any argument
\* senders, recipients and reward addresses a caller may pass, None included
WideAddresses == Addresses \cup {None}

\* amounts a caller may pass, a negative one included
WideAmounts == Amounts \cup {-50}

\* Transaction(sender, recipient, amount).is_valid()
IsValidCall(sender, recipient, amount) ==
    /\ pc = "idle"
    /\ ret' = Ret("is_valid", None,
                  IsValid(NewTransaction(sender, recipient, amount, now)), 0)
    /\ UNCHANGED <<chain, difficulty, pending_transactions, now, pc, new_block,
                   entry_pending, interrupts>>

NextWide ==
    \/ \E s \in WideAddresses, r \in WideAddresses, a \in WideAmounts :
          AddTransaction(s, r, a)
    \/ \E m \in WideAddresses : MineBegin(m)
    \/ MineStep
    \/ MineFinish
    \/ \E s \in WideAddresses, r \in WideAddresses, a \in WideAmounts :
          IsValidCall(s, r, a)
    \/ \E a \in WideAddresses : GetBalanceCall(a)

SpecWide == Init /\ [][NextWide]_vars

\* TRUE when tx1 and tx2 are two submissions of one non-null sender, each
\* within the sender's balance over the chain c and together above it
DoubleSpend(c, tx1, tx2) ==
    /\ tx1.sender = tx2.sender
    /\ tx1.sender /= None
    /\ tx1.amount <= GetBalance(c, tx1.sender)
    /\ tx2.amount <= GetBalance(c, tx1.sender)
    /\ tx1.amount + tx2.amount > GetBalance(c, tx1.sender)

\* TRUE when the pool holds two such submissions of sender s
PoolDoubleSpend(c, pool, s) ==
    \E j \in 1..Len(pool), k \in 1..Len(pool) :
        j < k /\ pool[j].sender = s /\ DoubleSpend(c, pool[j], pool[k])

\* TRUE when a record of block b credits address s
Credits(b, s) == \E j \in 1..Len(b.transactions) : b.transactions[j].recipient = s

\* C13 as stated: the second of two such submissions is accepted, and after
\* the next mine_pending_transactions the sender's balance is negative
C13_DoubleSpendNegative ==
    [][/\ \A s \in WideAddresses, r \in WideAddresses, a \in WideAmounts :
            ( /\ AddTransaction(s, r, a)
              /\ \E j \in 1..Len(pending_transactions) :
                    DoubleSpend(chain, pending_transactions[j], TxArg(s, r, a)) )
              => /\ ret'.ok
                 /\ pending_transactions' = Append(pending_transactions, TxArg(s, r, a))
       /\ \A s \in Addresses :
            (MineFinish /\ PoolDoubleSpend(chain, entry_pending, s))
              => GetBalance(chain', s) < 0]_vars

\* C13: the second of two such submissions is accepted when its recipient is
\* not its sender, and after the next mine_pending_transactions the sender's
\* balance is negative when no record of the mined block credits the sender
C13_DoubleSpend ==
    [][/\ \A s \in WideAddresses, r \in WideAddresses, a \in WideAmounts :
            ( /\ AddTransaction(s, r, a)
              /\ s /= r
              /\ \E j \in 1..Len(pending_transactions) :
                    DoubleSpend(chain, pending_transactions[j], TxArg(s, r, a)) )
              => /\ ret'.ok
                 /\ pending_transactions' = Append(pending_transactions, TxArg(s, r, a))
       /\ \A s \in Addresses :
            ( /\ MineFinish
              /\ PoolDoubleSpend(chain, entry_pending, s)
              /\ ~Credits(new_block, s) )
              => GetBalance(chain', s) < 0]_vars

C13_Witness ==
    /\ ret.op = "mine_pending_transactions"
    /\ Len(chain) = 3
    /\ Len(chain[3].transactions) = 3
    /\ chain[3].transactions[1].sender = "Alice"
    /\ chain[3].transactions[2].sender = "Alice"
    /\ GetBalance(SubSeq(chain, 1, 2), "Alice") = 100
    /\ chain[3].transactions[1].amount = 100
    /\ chain[3].transactions[2].amount = 50
    /\ GetBalance(chain, "Alice") = -50

\* ------------------------------------------------- alter, rehash, re-mine
\* Block.mine_block(d) run to its return (d is at most the digits of a digest)
RECURSIVE MineBlock(_, _)
MineBlock(b, d) == IF MineLoopCond(b, d) THEN MineBlock(MineIteration(b), d) ELSE b

\* every record of the chain is as create_genesis_block or Transaction.to_dict
\* wrote it
Untouched(c) ==
    \A i \in 1..Len(c) : \A j \in 1..Len(c[i].transactions) :
        LET r == c[i].transactions[j]
        IN  IF i = 1 THEN r = GenesisBlock(0).transactions[1]
            ELSE r.hash = TxCalculateHash(r)

\* the caller stores the content hash of an altered block:
\* block.hash = block.calculate_hash()
Rehash(i) ==
    /\ pc = "idle"
    /\ i \in 1..Len(chain)
    /\ chain[i].hash /= CalculateHash(chain[i])
    /\ chain' = [chain EXCEPT ![i].hash = CalculateHash(chain[i])]
    /\ ret' = Ret("rehash", None, TRUE, i - 1)
    /\ UNCHANGED <<difficulty, pending_transactions, now, pc, new_block,
                   entry_pending, interrupts>>

\* the caller re-mines an altered block alone:
\* block.hash = block.calculate_hash(); block.mine_block(blockchain.difficulty)
Remine(i) ==
    /\ pc = "idle"
    /\ i \in 1..Len(chain)
    /\ difficulty <= HashLen
    /\ chain[i].hash /= CalculateHash(chain[i])
    /\ chain' = [chain EXCEPT
                   ![i] = MineBlock([chain[i] EXCEPT !.hash = CalculateHash(chain[i])],
                                    difficulty)]
    /\ ret' = Ret("remine", None, TRUE, i - 1)
    /\ UNCHANGED <<difficulty, pending_transactions, now, pc, new_block,
                   entry_pending, interrupts>>

\* the API is used until a record is altered; one record of a block is altered,
\* the block is then rehashed or re-mined, and the chain is read
NextAttack ==
    \/ Untouched(chain) /\ Next
    \/ \E i \in 1..MaxBlocks, j \in 1..MaxPending, f \in Fields :
          Untouched(chain) /\ Tamper(i, j, f)
    \/ \E i \in 1..MaxBlocks : Rehash(i)
    \/ \E i \in 1..MaxBlocks : Remine(i)
    \/ ~Untouched(chain) /\ IsChainValidCall
    \/ ~Untouched(chain) /\ GetChainInfoCall
    \/ \E a \in Addresses : ~Untouched(chain) /\ GetBalanceCall(a)

SpecAttack == Init /\ [][NextAttack]_vars

\* the three checks of block i (1-based position, i >= 2), each on its own
HashMatches(i) == chain[i].hash = CalculateHash(chain[i])

LinkHolds(i) == chain[i].previous_hash = chain[i - 1].hash

MeetsDifficulty(i) ==
    /\ Len(chain[i].hash.hex) >= difficulty
    /\ \A k \in 1..difficulty : chain[i].hash.hex[k] = 0

\* C14: is_chain_valid() is true exactly when every block after the genesis
\* block passes the hash check, the link check and the difficulty check, also
\* on a chain whose blocks were altered, rehashed or re-mined by the caller
C14_ValidIffChecks ==
    LET checks == \A i \in 2..Len(chain) :
                      HashMatches(i) /\ LinkHolds(i) /\ MeetsDifficulty(i)
    IN  /\ IsChainValid(chain, difficulty) <=> checks
        /\ ret.op \in {"is_chain_valid", "get_chain_info"} => (ret.ok <=> checks)

\* is_chain_valid() returned false on a chain whose only failing check is the
\* difficulty check of its last block
C14_Witness ==
    /\ ret.op = "is_chain_valid"
    /\ ~ret.ok
    /\ Len(chain) = 3
    /\ \A i \in 2..Len(chain) : HashMatches(i) /\ LinkHolds(i)
    /\ MeetsDifficulty(2)
    /\ ~MeetsDifficulty(3)

\* C15: a step that returns from is_chain_valid(), get_balance(address) or
\* get_chain_info() leaves every block, the pool and the difficulty as they
\* were, whether the chain validates or not (mining_reward is never assigned)
C15_ReadsChangeNothing ==
    [][ret'.op \in {"is_chain_valid", "get_balance", "get_chain_info"}
         => /\ chain' = chain
            /\ pending_transactions' = pending_transactions
            /\ difficulty' = difficulty]_vars

\* is_chain_valid() returned false and the altered block is still as altered
C15_Witness ==
    /\ ret.op = "is_chain_valid"
    /\ ~ret.ok
    /\ Len(chain) = 3
    /\ chain[2].hash /= CalculateHash(chain[2])
    /\ chain[2].transactions[1].amount = 999999

\* C19: when one record of block i of a chain built through the API is
\* altered and block i alone is then re-mined, the block passes the hash check
\* and the difficulty check again, and is_chain_valid() is false when block i
\* has a successor, whose link check fails, and true when block i is the last
C19_RemineAlone ==
    [][\A i \in 1..MaxBlocks :
          (Remine(i) /\ ret.op = "tamper" /\ ret.num = i - 1)
            => /\ chain'[i].hash = CalculateHash(chain'[i])
               /\ StartsWith(chain'[i].hash.hex, Zeros(difficulty))
               /\ i < Len(chain) =>
                     /\ ~IsChainValid(chain', difficulty)
                     /\ chain'[i + 1].previous_hash /= chain'[i].hash
               /\ i = Len(chain) => IsChainValid(chain', difficulty)]_vars

\* block 1 of a chain of three blocks was altered and re-mined: the link of
\* block 2 is broken
C19_Witness ==
    /\ ret.op = "remine"
    /\ ret.num = 1
    /\ Len(chain) = 3
    /\ difficulty = 2
    /\ chain[2].transactions[1].amount = 999999
    /\ chain[2].hash = CalculateHash(chain[2])
    /\ chain[3].previous_hash /= chain[2].hash
    /\ ~IsChainValid(chain, difficulty)

\* C16: Transaction(s, r, a).is_valid() is true exactly when a > 0 and s is
\* null or differs from r, for every sender, recipient and amount
C16_IsValidIff ==
    [][\A s \in WideAddresses, r \in WideAddresses, a \in WideAmounts :
          IsValidCall(s, r, a)
            => (ret'.ok <=> (a > 0 /\ (s = None \/ s /= r)))]_vars

\* C17 as stated: every record of every block passes the validity predicate
C17_AllRecordsPass ==
    \A i \in 1..Len(chain) : \A j \in 1..Len(chain[i].transactions) :
        LET r == chain[i].transactions[j]
        IN  r.amount > 0 /\ (r.sender /= None => r.sender /= r.recipient)

\* C17: every record of every block after the genesis block passes the
\* validity predicate, whatever the reward address
C17_MinedRecordsPass ==
    \A i \in 2..Len(chain) : \A j \in 1..Len(chain[i].transactions) :
        LET r == chain[i].transactions[j]
        IN  r.amount > 0 /\ (r.sender /= None => r.sender /= r.recipient)

\* a block mined for the reward address None, followed by a block holding a
\* transfer
C17_Witness ==
    /\ Len(chain) = 3
    /\ Len(chain[2].transactions) = 1
    /\ chain[2].transactions[1].recipient = "Alice"
    /\ Len(chain[3].transactions) = 2
    /\ chain[3].transactions[1].sender = "Alice"
    /\ chain[3].transactions[2].sender = None
    /\ chain[3].transactions[2].recipient = None

\* C20: the balances of the non-null addresses add up to mining_reward times
\* the number of mined blocks, and get_balance(None) is the negation of it
C20_Conservation ==
    LET supply == GetBalance(chain, "Alice") + GetBalance(chain, "Bob")
                    + GetBalance(chain, "genesis")
    IN  /\ supply = MiningReward * (Len(chain) - 1)
        /\ GetBalance(chain, None) = -supply

\* ------------------------------------------------------------ termination
\* an iteration of the loop of mine_block after the nonce sweep has met every
\* digit string once: the digits of nonce MaxNonce + k are those of nonce k, so
\* the sweep starts over
MineWrap ==
    /\ pc = "mining"
    /\ MineLoopCond(new_block, difficulty)
    /\ new_block.nonce = MaxNonce
    /\ new_block' = MineIteration([new_block EXCEPT !.nonce = 0])
    /\ UNCHANGED <<chain, difficulty, pending_transactions, now, pc,
                   entry_pending, ret, interrupts>>

\* calls that are not interrupted: the thread inside mine_block keeps running
NextLive ==
    \/ \E s \in Addresses, r \in Addresses, a \in Amounts : AddTransaction(s, r, a)
    \/ \E m \in RewardAddresses : MineBegin(m)
    \/ MineStep
    \/ MineWrap
    \/ MineFinish

SpecLive ==
    /\ Init
    /\ [][NextLive]_vars
    /\ WF_vars(MineStep)
    /\ WF_vars(MineWrap)
    /\ WF_vars(MineFinish)

\* C18 as stated: mine_block(difficulty) returns for every difficulty >= 1
C18_TerminatesAny ==
    (pc = "mining" /\ difficulty >= 1) ~> (pc = "idle")

\* C18: mine_block(difficulty) returns for every difficulty from 1 to the
\* number of digits of a digest
C18_Terminates ==
    (pc = "mining" /\ difficulty >= 1 /\ difficulty <= HashLen) ~> (pc = "idle")

\* a block was mined at the largest difficulty a digest can meet, after at
\* least one iteration
C18_Witness ==
    /\ ret.op = "mine_pending_transactions"
    /\ difficulty = HashLen
    /\ LastBlock.nonce > 0
    /\ LastBlock.hash.hex = Zeros(HashLen)
====
